---- MODULE Spec2Model ----
(***************************************************************************)
(* pplmatch: matching of transcript speaker labels against the roster of   *)
(* the Quebec National Assembly (inst/python: normalizer.py, matcher.py,   *)
(* legislature.py).                                                        *)
(*                                                                         *)
(* A Python str is a sequence of characters, each character a one-letter   *)
(* string ("ndash" and "mdash" stand for U+2013 and U+2014, "U+0301" and   *)
(* its like for the combining marks).  None is NoneStr, NoneTxt, NoneNum   *)
(* or NoneScore according to the type of the value it replaces.  A float   *)
(* score is the exact rational <<numerator, denominator>> in lowest terms. *)
(***************************************************************************)
EXTENDS Integers, Sequences, FiniteSets, TLC

(***************************************************************************)
(* Characters: whitespace, digits, case, canonical decomposition.          *)
(***************************************************************************)
Whitespace == {" ", "\t", "\n"}

Digits == {"0", "1", "2", "3", "4", "5", "6", "7", "8", "9"}

UpperAZ == <<"A", "B", "C", "D", "E", "F", "G", "H", "I", "J", "K", "L", "M", "N", "O", "P", "Q", "R", "S", "T", "U", "V", "W", "X", "Y", "Z">>

LowerAZ == <<"a", "b", "c", "d", "e", "f", "g", "h", "i", "j", "k", "l", "m", "n", "o", "p", "q", "r", "s", "t", "u", "v", "w", "x", "y", "z">>

\* The accented letters of French, upper and lower case, with the base letter
\* and the combining mark of their canonical decomposition (NFD).
AccUpper == <<"À", "Â", "Ç", "È", "É", "Ê", "Ë", "Î", "Ï", "Ô", "Ù", "Û">>

AccLower == <<"à", "â", "ç", "è", "é", "ê", "ë", "î", "ï", "ô", "ù", "û">>

AccBase == <<"a", "a", "c", "e", "e", "e", "e", "i", "i", "o", "u", "u">>

AccMark == <<"U+0300", "U+0302", "U+0327", "U+0300", "U+0301", "U+0302", "U+0308", "U+0302", "U+0308", "U+0302", "U+0300", "U+0302">>

\* Unicode category Mn among the characters of the model.
CombiningMarks == {"U+0300", "U+0301", "U+0302", "U+0308", "U+0327"}

Range(s) == {s[i] : i \in 1..Len(s)}

IndexOf(s, c) == CHOOSE i \in 1..Len(s) : s[i] = c

Min(S) == CHOOSE x \in S : \A y \in S : x <= y

Max(S) == CHOOSE x \in S : \A y \in S : x >= y

\* str.lower() on one character.
lower_char(c) ==
    IF c \in Range(UpperAZ) THEN LowerAZ[IndexOf(UpperAZ, c)]
    ELSE IF c \in Range(AccUpper) THEN AccLower[IndexOf(AccUpper, c)]
    ELSE c

upper_char(c) ==
    IF c \in Range(LowerAZ) THEN UpperAZ[IndexOf(LowerAZ, c)]
    ELSE IF c \in Range(AccLower) THEN AccUpper[IndexOf(AccLower, c)]
    ELSE c

lower(s) == [i \in 1..Len(s) |-> lower_char(s[i])]

\* unicodedata.normalize("NFD", c) for one character.
nfd_char(c) ==
    IF c \in Range(AccLower)
    THEN <<AccBase[IndexOf(AccLower, c)], AccMark[IndexOf(AccLower, c)]>>
    ELSE IF c \in Range(AccUpper)
    THEN <<upper_char(AccBase[IndexOf(AccUpper, c)]), AccMark[IndexOf(AccUpper, c)]>>
    ELSE <<c>>

\* The length of the decomposition of the first i characters of s.
nfd_len(s, i) == i + Cardinality({h \in 1..i : Len(nfd_char(s[h])) = 2})

\* The character at place p of the decomposition of s, which falls in the
\* decomposition of s[i].
nfd_at(s, p, i) == nfd_char(s[i])[p - nfd_len(s, i - 1)]

\* unicodedata.normalize("NFD", s): the decompositions of the characters of s,
\* one after the other.
nfd(s) ==
    [p \in 1..nfd_len(s, Len(s)) |->
        nfd_at(s, p, Min({i \in 1..Len(s) : nfd_len(s, i) >= p}))]

\* normalizer.strip_accents
strip_accents(text) ==
    IF text = <<>> THEN <<>>
    ELSE SelectSeq(nfd(text), LAMBDA c : c \notin CombiningMarks)

(***************************************************************************)
(* str and re primitives.                                                  *)
(***************************************************************************)
\* The number of leading (trailing) characters of s that are in S.
LeadLen(s, S) ==
    LET bad == {i \in 1..Len(s) : s[i] \notin S}
    IN  IF bad = {} THEN Len(s) ELSE Min(bad) - 1

TrailLen(s, S) ==
    LET bad == {i \in 1..Len(s) : s[i] \notin S}
    IN  IF bad = {} THEN Len(s) ELSE Len(s) - Max(bad)

From(s, i) == SubSeq(s, i, Len(s))

\* str.strip()
strip(s) == SubSeq(s, LeadLen(s, Whitespace) + 1, Len(s) - TrailLen(s, Whitespace))

startswith(s, p) == Len(s) >= Len(p) /\ SubSeq(s, 1, Len(p)) = p

\* k in s
contains(s, k) == \E i \in 1..(Len(s) - Len(k) + 1) : SubSeq(s, i, i + Len(k) - 1) = k

\* str.split(): the maximal runs of non-whitespace characters.
RECURSIVE split(_)
split_tokens(t) ==
    IF t = <<>> THEN <<>>
    ELSE <<SubSeq(t, 1, LeadLen(t, Range(t) \ Whitespace))>>
         \o split(From(t, LeadLen(t, Range(t) \ Whitespace) + 1))

split(s) == split_tokens(From(s, LeadLen(s, Whitespace) + 1))

\* str.split(sep) for a one-character separator: empty pieces are kept.
RECURSIVE split_on(_, _)
split_on(s, sep) ==
    IF \E i \in 1..Len(s) : s[i] = sep
    THEN LET p == Min({i \in 1..Len(s) : s[i] = sep})
         IN  <<SubSeq(s, 1, p - 1)>> \o split_on(From(s, p + 1), sep)
    ELSE <<s>>

\* sep.join(parts)
RECURSIVE join(_, _)
join(sep, parts) ==
    IF parts = <<>> THEN <<>>
    ELSE IF Len(parts) = 1 THEN parts[1]
    ELSE parts[1] \o sep \o join(sep, Tail(parts))

\* re.sub(r"\s+", " ", s)
\* The characters of s at the places kept, each whitespace turned to a space.
spaced_at(s, kept) ==
    [n \in 1..Len(kept) |-> IF s[kept[n]] \in Whitespace THEN " " ELSE s[kept[n]]]

\* Each run of whitespace gives one space, at the place of its first character.
collapse_ws(s) ==
    spaced_at(s, SelectSeq([j \in 1..Len(s) |-> j],
                           LAMBDA j : s[j] \notin Whitespace \/ j = 1
                                      \/ s[j - 1] \notin Whitespace))

\* The tail of the cleaning pipeline shared by normalize_speaker (step 6) and
\* normalize_member_name: lower, strip_accents, [^a-z ] removed, \s+ collapsed,
\* strip.
final_cleanup(name) ==
    LET a == strip_accents(lower(name))
        b == SelectSeq(a, LAMBDA c : c \in Range(LowerAZ) \cup {" "})
    IN  strip(collapse_ws(b))

\* The class [A-ZÀ-ÖØ-Ý] under re.IGNORECASE.
IsNameInitial(c) ==
    c \in Range(UpperAZ) \cup Range(LowerAZ) \cup Range(AccUpper) \cup Range(AccLower)

(***************************************************************************)
(* normalizer.py                                                           *)
(***************************************************************************)
ROLES ==
    { <<"l", "e", " ", "p", "r", "e", "s", "i", "d", "e", "n", "t">>,
      <<"l", "a", " ", "p", "r", "e", "s", "i", "d", "e", "n", "t", "e">>,
      <<"l", "e", " ", "v", "i", "c", "e", "-", "p", "r", "e", "s", "i", "d", "e", "n", "t">>,
      <<"l", "a", " ", "v", "i", "c", "e", "-", "p", "r", "e", "s", "i", "d", "e", "n", "t", "e">>,
      <<"l", "e", " ", "p", "r", "e", "s", "i", "d", "e", "n", "t", " ", "s", "u", "p", "p", "l", "e", "a", "n", "t">>,
      <<"l", "a", " ", "p", "r", "e", "s", "i", "d", "e", "n", "t", "e", " ", "s", "u", "p", "p", "l", "e", "a", "n", "t", "e">>,
      <<"u", "n", "e", " ", "v", "o", "i", "x">>,
      <<"d", "e", "s", " ", "v", "o", "i", "x">>,
      <<"l", "e", " ", "s", "e", "c", "r", "e", "t", "a", "i", "r", "e">>,
      <<"l", "a", " ", "s", "e", "c", "r", "e", "t", "a", "i", "r", "e">>,
      <<"l", "e", " ", "s", "e", "c", "r", "e", "t", "a", "i", "r", "e", " ", "a", "d", "j", "o", "i", "n", "t">>,
      <<"l", "a", " ", "s", "e", "c", "r", "e", "t", "a", "i", "r", "e", " ", "a", "d", "j", "o", "i", "n", "t", "e">>,
      <<"l", "e", " ", "g", "r", "e", "f", "f", "i", "e", "r">>,
      <<"l", "a", " ", "g", "r", "e", "f", "f", "i", "e", "r", "e">>,
      <<"m", "i", "s", "e", " ", "a", "u", "x", " ", "v", "o", "i", "x">>,
      <<"m", "o", "t", "i", "o", "n">>,
      <<"o", "r", "d", "r", "e", " ", "d", "u", " ", "j", "o", "u", "r">> }

ROLE_PREFIXES ==
    { <<"l", "e", " ", "p", "r", "e", "s", "i", "d", "e", "n", "t">>,
      <<"l", "a", " ", "p", "r", "e", "s", "i", "d", "e", "n", "t", "e">>,
      <<"l", "e", " ", "v", "i", "c", "e", "-", "p", "r", "e", "s", "i", "d", "e", "n", "t">>,
      <<"l", "a", " ", "v", "i", "c", "e", "-", "p", "r", "e", "s", "i", "d", "e", "n", "t", "e">>,
      <<"l", "e", " ", "s", "e", "c", "r", "e", "t", "a", "i", "r", "e">>,
      <<"l", "a", " ", "s", "e", "c", "r", "e", "t", "a", "i", "r", "e">>,
      <<"l", "e", " ", "g", "r", "e", "f", "f", "i", "e", "r">>,
      <<"l", "a", " ", "g", "r", "e", "f", "f", "i", "e", "r", "e">> }

CROWDS == { <<"d", "e", "s", " ", "v", "o", "i", "x">> }

\* The keywords of classify_speaker's last test: "mise aux voix", "motion", "grief".
PROCEDURE_KEYWORDS ==
    { <<"m", "i", "s", "e", " ", "a", "u", "x", " ", "v", "o", "i", "x">>,
      <<"m", "o", "t", "i", "o", "n">>,
      <<"g", "r", "i", "e", "f">> }

\* LEADING_NUMS_RE.sub("", s): ^[\d\s]+ removed.
LEADING_NUMS_sub(s) == From(s, LeadLen(s, Digits \cup Whitespace) + 1)

\* normalizer.classify_speaker
\* The tests of classify_speaker on the cleaned, lowercase, accent-free string.
classify_cleaned(lower_no_accent) ==
    IF lower_no_accent \in CROWDS THEN "crowd"
    ELSE IF lower_no_accent \in ROLES THEN "role"
    ELSE IF \E prefix \in ROLE_PREFIXES : startswith(lower_no_accent, prefix)
    THEN "role"
    ELSE IF \E keyword \in PROCEDURE_KEYWORDS : contains(lower_no_accent, keyword)
    THEN "role"
    ELSE "person"

classify_speaker(raw_speaker) ==
    IF strip(raw_speaker) = <<>> THEN "empty"
    ELSE classify_cleaned(strip_accents(lower(strip(LEADING_NUMS_sub(strip(raw_speaker))))))

\* normalizer.normalize_member_name
\* "Lastname, Firstname" flipped at the comma at position p.
flip_at(name, p) == strip(From(name, p + 1)) \o <<" ">> \o strip(SubSeq(name, 1, p - 1))

normalize_member_name(name) ==
    IF name = <<>> THEN <<>>
    ELSE final_cleanup(IF "," \in Range(name)
                       THEN flip_at(name, Min({i \in 1..Len(name) : name[i] = ","}))
                       ELSE name)

last_part(parts) == IF parts = <<>> THEN <<>> ELSE parts[Len(parts)]

\* normalizer.extract_last_name
extract_last_name(normalized_name) == last_part(split(normalized_name))

\* TRAILING_DISTRICT_RE = ,\s*([A-ZÀ-ÖØ-Ý][^(\-]*)$ : the positions of a comma at
\* which the expression matches, and where group 1 starts for such a comma.
DistrictGroupStart(s, p) == p + 1 + LeadLen(From(s, p + 1), Whitespace)

TRAILING_DISTRICT_matches(s) ==
    {p \in 1..Len(s) :
        /\ s[p] = ","
        /\ LET q == DistrictGroupStart(s, p)
           IN  /\ q <= Len(s)
               /\ IsNameInitial(s[q])
               /\ \A j \in (q + 1)..Len(s) : s[j] \notin {"(", "-"}}

\* TRAILING_ACTION_RE =
\*   \s*([\(\-ndash mdash]\s*)?(keyword)[\)\s]*$   under re.IGNORECASE.
ACTION_KEYWORDS ==
    { <<"r", "é", "p", "l", "i", "q", "u", "e">>,
      <<"s", "u", "i", "t", "e">>,
      <<"e", "n", " ", "r", "e", "m", "p", "l", "a", "c", "e", "m", "e", "n", "t">>,
      <<"p", "a", "r", " ", "i", "n", "t", "é", "r", "i", "m">>,
      <<"s", "u", "p", "p", "l", "é", "a", "n", "t">>,
      <<"s", "u", "p", "p", "l", "é", "a", "n", "t", "e">> }

ACTION_DELIMS == {"(", "-", "ndash", "mdash"}

\* The keyword and the closing [\)\s]*$ match from position b of s.
ActionTailAt(s, b) ==
    \E k \in ACTION_KEYWORDS :
        /\ b + Len(k) - 1 <= Len(s)
        /\ lower(SubSeq(s, b, b + Len(k) - 1)) = k
        /\ \A j \in (b + Len(k))..Len(s) : s[j] \in {")"} \cup Whitespace

\* The whole expression matches from position p of s.
ActionMatchAt(s, p) ==
    \E a \in p..Len(s) :
        /\ \A j \in p..(a - 1) : s[j] \in Whitespace
        /\ \/ ActionTailAt(s, a)
           \/ /\ s[a] \in ACTION_DELIMS
              /\ \E b \in (a + 1)..Len(s) :
                    /\ \A j \in (a + 1)..(b - 1) : s[j] \in Whitespace
                    /\ ActionTailAt(s, b)

\* TRAILING_ACTION_RE.sub("", s): the leftmost match runs to the end of s.
cut_at_first(s, starts) == IF starts = {} THEN s ELSE SubSeq(s, 1, Min(starts) - 1)

TRAILING_ACTION_sub(s) == cut_at_first(s, {p \in 1..Len(s) : ActionMatchAt(s, p)})

\* HONORIFIC_GLUED_RE.sub(r"\2", s): ^(M\.|Mme\.?)([A-ZÀ-ÖØ-Ý]) keeps group 2.
HONORIFIC_GLUED_sub(s) ==
    LET l == lower(s)
    IN  IF startswith(l, <<"m", ".">>) /\ Len(s) >= 3 /\ IsNameInitial(s[3])
        THEN From(s, 3)
        ELSE IF startswith(l, <<"m", "m", "e", ".">>) /\ Len(s) >= 5 /\ IsNameInitial(s[5])
        THEN From(s, 5)
        ELSE IF startswith(l, <<"m", "m", "e">>) /\ Len(s) >= 4 /\ IsNameInitial(s[4])
        THEN From(s, 4)
        ELSE s

\* HONORIFICS_RE.sub("", s): ^(M\.\s*|Mme\s+|Mme\.\s*|Mr\.\s*|Mr\s+), the first
\* alternative that matches.
HONORIFICS_sub(s) ==
    LET l == lower(s)
        Drop(n) == From(s, n + 1 + LeadLen(From(s, n + 1), Whitespace))
        SpaceAt(i) == Len(s) >= i /\ s[i] \in Whitespace
    IN  IF startswith(l, <<"m", ".">>) THEN Drop(2)
        ELSE IF startswith(l, <<"m", "m", "e">>) /\ SpaceAt(4) THEN Drop(3)
        ELSE IF startswith(l, <<"m", "m", "e", ".">>) THEN Drop(4)
        ELSE IF startswith(l, <<"m", "r", ".">>) THEN Drop(3)
        ELSE IF startswith(l, <<"m", "r">>) /\ SpaceAt(3) THEN Drop(2)
        ELSE s

NoneTxt == <<"None">>

\* normalizer.normalize_speaker: <<category, normalized_name, extracted_district>>
\* Steps 2 to 6 of normalize_speaker, on the name without its district.
clean_name(name) ==
    final_cleanup(
        strip(HONORIFICS_sub(
            HONORIFIC_GLUED_sub(
                strip(TRAILING_ACTION_sub(
                    strip(LEADING_NUMS_sub(name))))))))

\* Steps 1 to 6 of normalize_speaker for a person: name is the stripped raw
\* string and dm the commas at which TRAILING_DISTRICT_RE matches in it (the
\* search takes the leftmost).
normalize_person(name, dm) ==
    IF dm = {} THEN <<"person", clean_name(name), NoneTxt>>
    ELSE <<"person",
           clean_name(strip(SubSeq(name, 1, Min(dm) - 1))),
           normalize_member_name(From(name, DistrictGroupStart(name, Min(dm))))>>

normalize_category(raw_speaker, category) ==
    IF category # "person" THEN <<category, <<>>, NoneTxt>>
    ELSE normalize_person(strip(raw_speaker), TRAILING_DISTRICT_matches(strip(raw_speaker)))

normalize_speaker(raw_speaker) == normalize_category(raw_speaker, classify_speaker(raw_speaker))

(***************************************************************************)
(* Scores (float) as exact rationals, and the three rapidfuzz similarity   *)
(* functions the matcher calls.                                            *)
(***************************************************************************)
RECURSIVE Gcd(_, _)
Gcd(a, b) == IF b = 0 THEN a ELSE Gcd(b, a % b)

\* The rational n/d (n >= 0, d > 0) in lowest terms.
Frac(n, d) == IF n = 0 THEN <<0, 1>> ELSE <<n \div Gcd(n, d), d \div Gcd(n, d)>>

RLess(p, q) == p[1] * q[2] < q[1] * p[2]

RLeq(p, q) == p[1] * q[2] <= q[1] * p[2]

\* (w1*p + w2*q + w3*r) / 10: the weighted sums of the two score functions.
Weighted(w1, p, w2, q, w3, r) ==
    Frac(w1 * p[1] * q[2] * r[2] + w2 * q[1] * p[2] * r[2] + w3 * r[1] * p[2] * q[2],
         10 * p[2] * q[2] * r[2])

RMax(S) == CHOOSE p \in S : \A q \in S : RLeq(q, p)

\* One row of the longest-common-subsequence table, entry j + 1 for the first j
\* characters of b: 0 for none of them, and for j of them the character c of the
\* row is left out (the entry above, in prev) or paired with an occurrence b[h]
\* of it.
LcsRow(prev, c, b) ==
    <<0>> \o [j \in 1..Len(b) |->
                Max({prev[j + 1]} \cup {prev[h] + 1 : h \in {h \in 1..j : b[h] = c}})]

\* The row of the table after the characters a[lo..hi], prev being the row
\* before them: the rows of the first half, then those of the second.
RECURSIVE LcsRows(_, _, _, _, _)
LcsRows(prev, a, b, lo, hi) ==
    IF lo > hi THEN prev
    ELSE IF lo = hi THEN LcsRow(prev, a[lo], b)
    ELSE CHOOSE row \in {LcsRows(mid, a, b, (lo + hi) \div 2 + 1, hi) :
                           mid \in {LcsRows(prev, a, b, lo, (lo + hi) \div 2)}} : TRUE

Lcs(a, b) == LcsRows([j \in 1..(Len(b) + 1) |-> 0], a, b, 1, Len(a))[Len(b) + 1]

\* rapidfuzz.fuzz.ratio: the normalized Indel similarity, 100 * 2*LCS / (|a|+|b|).
ratio(a, b) ==
    IF Len(a) + Len(b) = 0 THEN <<100, 1>> ELSE Frac(200 * Lcs(a, b), Len(a) + Len(b))

\* The code point order of the characters of the model (sorted() compares str
\* by code point).
CodeOrder ==
    <<"\t", "\n", " ", "'", "(", ")", ",", "-", ".",
      "0", "1", "2", "3", "4", "5", "6", "7", "8", "9", ";">>
    \o UpperAZ \o LowerAZ \o AccUpper \o AccLower
    \o <<"U+0300", "U+0301", "U+0302", "U+0308", "U+0327", "ndash", "mdash">>

ord(c) == IndexOf(CodeOrder, c)

\* a < b for two str.
\* The places at which both a and b have a character, and they differ.
differ_at(a, b) == {j \in 1..Len(a) : j <= Len(b) /\ a[j] # b[j]}

StrLess(a, b) ==
    IF differ_at(a, b) = {} THEN Len(a) < Len(b)
    ELSE ord(a[Min(differ_at(a, b))]) < ord(b[Min(differ_at(a, b))])

\* sorted(names) for a list of str.
RECURSIVE Insert(_, _)
Insert(s, sortedSeq) ==
    IF sortedSeq = <<>> THEN <<s>>
    ELSE IF StrLess(s, Head(sortedSeq)) THEN <<s>> \o sortedSeq
    ELSE <<Head(sortedSeq)>> \o Insert(s, Tail(sortedSeq))

RECURSIVE sorted(_)
sorted(names) ==
    IF names = <<>> THEN <<>> ELSE Insert(names[Len(names)], sorted(SubSeq(names, 1, Len(names) - 1)))

\* rapidfuzz.fuzz.token_sort_ratio: ratio of the two strings with their tokens
\* sorted and joined by one space.
token_sort_ratio(a, b) ==
    ratio(join(<<" ">>, sorted(split(a))), join(<<" ">>, sorted(split(b))))

\* The substrings of the longer string that rapidfuzz aligns the shorter one
\* with: its prefixes shorter than the shorter string, its windows of that
\* length, and its suffixes of at most that length.
PartialWindows(shorter, longer) ==
    LET n1 == Len(shorter)
        n2 == Len(longer)
    IN  {SubSeq(longer, 1, i) : i \in 1..(n1 - 1)}
        \cup {SubSeq(longer, i + 1, i + n1) : i \in 0..(n2 - n1 - 1)}
        \cup {SubSeq(longer, i + 1, n2) : i \in (n2 - n1)..(n2 - 1)}

PartialImpl(shorter, longer) ==
    IF shorter = <<>> THEN <<0, 1>>
    ELSE RMax({ratio(shorter, w) : w \in PartialWindows(shorter, longer)})

\* rapidfuzz.fuzz.partial_ratio
partial_ratio(a, b) ==
    IF a = <<>> /\ b = <<>> THEN <<100, 1>>
    ELSE IF Len(a) = Len(b) THEN RMax({PartialImpl(a, b), PartialImpl(b, a)})
    ELSE PartialImpl(IF Len(a) < Len(b) THEN a ELSE b, IF Len(a) < Len(b) THEN b ELSE a)

\* matcher._fuzzy_score_full: 0.6 * token_sort_ratio + 0.4 * ratio
_fuzzy_score_full(speaker_norm, candidate_norm) ==
    Weighted(6, token_sort_ratio(speaker_norm, candidate_norm),
             4, ratio(speaker_norm, candidate_norm),
             0, <<0, 1>>)

\* matcher._fuzzy_score_last: 0.5 * partial_ratio + 0.3 * token_sort_ratio + 0.2 * ratio
_fuzzy_score_last(speaker_norm, candidate_last) ==
    Weighted(5, partial_ratio(speaker_norm, candidate_last),
             3, token_sort_ratio(speaker_norm, candidate_last),
             2, ratio(speaker_norm, candidate_last))

(***************************************************************************)
(* matcher.py: the session index and the matching cascade.                 *)
(***************************************************************************)
NoneStr == "None"

NoneScore == <<-1, 1>>

\* None where a list of member infos is expected.
NoneCands == << [none |-> TRUE] >>

\* Truth value of an optional str field (party_id, gender): None and "" are false.
Truthy(v) == v \notin {NoneStr, ""}

\* A dict is the sequence of its <<key, value>> items in insertion order.
keys(d) == {d[n][1] : n \in 1..Len(d)}

\* d[k] for a key of d
get(d, k) == d[CHOOSE n \in 1..Len(d) : d[n][1] = k][2]

\* d[k] = v: a new key is added at the end, a known one keeps its place.
Put(d, k, v) ==
    IF k \in keys(d)
    THEN [d EXCEPT ![CHOOSE n \in 1..Len(d) : d[n][1] = k] = <<k, v>>]
    ELSE Append(d, <<k, v>>)

\* The info dict _build_lookup makes of one member.
member_info(m, full_norm) ==
    [ full_name      |-> m.full_name,
      full_name_norm |-> full_norm,
      last_name_norm |-> extract_last_name(full_norm),
      party_id       |-> m.party_id,
      gender         |-> m.gender,
      district_id    |-> m.district_id ]

\* The loop over the alternate names of one member (split on ";"): each
\* non-empty one, normalized, is a key of other_names_index.
RECURSIVE IndexOtherNames(_, _, _)
IndexOtherNames(index, alts, info) ==
    IF alts = <<>> THEN index
    ELSE IndexOtherNames(
             IF strip(Head(alts)) # <<>>
             THEN Put(index, normalize_member_name(strip(Head(alts))), info)
             ELSE index,
             Tail(alts), info)

\* The body of _build_lookup's loop for a member of the legislature: info
\* added to the four indexes built so far.
add_info(lk, m, info) ==
    [ full_name_index |-> Put(lk.full_name_index, info.full_name_norm, info),
      other_names_index |->
          IF m.other_names # NoneTxt /\ strip(m.other_names) # <<>>
          THEN IndexOtherNames(lk.other_names_index, split_on(m.other_names, ";"), info)
          ELSE lk.other_names_index,
      last_name_index |->
          Put(lk.last_name_index, info.last_name_norm,
              IF info.last_name_norm \in keys(lk.last_name_index)
              THEN Append(get(lk.last_name_index, info.last_name_norm), info)
              ELSE <<info>>),
      all_members |-> Append(lk.all_members, info) ]

\* One iteration of _build_lookup's loop.
AddMember(lk, m, legislature) ==
    IF m.legislature_id # legislature THEN lk
    ELSE CHOOSE r \in {add_info(lk, m, info) :
                        info \in {member_info(m, normalize_member_name(m.full_name))}} : TRUE

RECURSIVE BuildFrom(_, _, _)
BuildFrom(lk, members, legislature) ==
    IF members = <<>> THEN lk
    ELSE CHOOSE r \in {BuildFrom(lk2, Tail(members), legislature) :
                         lk2 \in {AddMember(lk, Head(members), legislature)}} : TRUE

\* matcher._build_lookup
_build_lookup(members, legislature) ==
    BuildFrom([ full_name_index |-> <<>>, other_names_index |-> <<>>,
                last_name_index |-> <<>>, all_members |-> <<>> ],
              members, legislature)

\* matcher._make_result
_make_result(info, match_level, match_score) ==
    [ matched_name |-> info.full_name,
      party_id     |-> info.party_id,
      gender       |-> info.gender,
      district_id  |-> info.district_id,
      match_level  |-> match_level,
      match_score  |-> match_score ]

\* The names of _make_ambiguous_result, before they are joined.
ambiguous_names(candidates) ==
    sorted([j \in 1..Len(candidates) |-> candidates[j].full_name])

\* parties.pop() if len(parties) == 1 else None, for the set of the truthy
\* values of one field.
consensus(values) ==
    LET present == {v \in values : Truthy(v)}
    IN  IF Cardinality(present) = 1 THEN CHOOSE v \in present : TRUE ELSE NoneStr

\* matcher._make_ambiguous_result
_make_ambiguous_result(candidates, match_score) ==
    [ matched_name |-> join(<<";", " ">>, ambiguous_names(candidates)),
      party_id     |-> consensus({candidates[j].party_id : j \in 1..Len(candidates)}),
      gender       |-> consensus({candidates[j].gender : j \in 1..Len(candidates)}),
      district_id  |-> NoneStr,
      match_level  |-> "ambiguous",
      match_score  |-> match_score ]

no_match ==
    [ matched_name |-> NoneTxt,
      party_id     |-> NoneStr,
      gender       |-> NoneStr,
      district_id  |-> NoneStr,
      match_level  |-> "unmatched",
      match_score  |-> NoneScore ]

\* The score of one member at the fuzzy level.
fuzzy_score(speaker_norm, member, is_single_token) ==
    IF is_single_token THEN _fuzzy_score_last(speaker_norm, member.last_name_norm)
    ELSE _fuzzy_score_full(speaker_norm, member.full_name_norm)

\* A variant of line 195 with >= for >: the last member of the top score wins.
better_or_equal(best, score, j) == IF RLeq(best[1], score) THEN <<score, j>> ELSE best

\* The loop that tracks the best member: <<best_score, index of best_info>>,
\* index 0 for None; only a strictly greater score replaces the best.
better(best, score, j) == IF RLess(best[1], score) THEN <<score, j>> ELSE best

RECURSIVE BestFrom(_, _, _, _, _)
BestFrom(speaker_norm, all_members, is_single_token, j, best) ==
    IF j > Len(all_members) THEN best
    ELSE BestFrom(speaker_norm, all_members, is_single_token, j + 1,
                  better(best, fuzzy_score(speaker_norm, all_members[j], is_single_token), j))

\* list({m["full_name"]: m for m in close_matches}.values()): one entry per
\* display name, at the place of its first occurrence, holding its last.
pick_last_by_name(close_matches, firsts) ==
    [n \in 1..Len(firsts) |->
        close_matches[Max({h \in 1..Len(close_matches) :
                             close_matches[h].full_name = close_matches[firsts[n]].full_name})]]

unique_by_full_name(close_matches) ==
    pick_last_by_name(close_matches,
                      SelectSeq([j \in 1..Len(close_matches) |-> j],
                                LAMBDA j : \A h \in 1..(j - 1) :
                                    close_matches[h].full_name # close_matches[j].full_name))

\* The members whose last-name score reaches the threshold (lines 202-206).
close_matches_of(speaker_norm, lookup, threshold) ==
    SelectSeq(lookup.all_members,
              LAMBDA member : RLeq(<<threshold, 1>>,
                                   _fuzzy_score_last(speaker_norm, member.last_name_norm)))

\* Lines 211-214: ambiguous over unique_matches when they are several (None is
\* given for a name of several tokens, which skips the test), else the best.
fuzzy_accept(lookup, best, unique_matches) ==
    IF unique_matches # NoneCands /\ Len(unique_matches) > 1
    THEN <<_make_ambiguous_result(unique_matches, best[1]), unique_matches>>
    ELSE <<_make_result(lookup.all_members[best[2]], "fuzzy", best[1]), NoneCands>>

\* Lines 199-216, best being <<best_score, index of best_info>>.
fuzzy_decide(speaker_norm, lookup, threshold, is_single_token, best) ==
    IF RLeq(<<threshold, 1>>, best[1]) /\ best[2] # 0
    THEN fuzzy_accept(lookup, best,
                      IF is_single_token
                      THEN unique_by_full_name(close_matches_of(speaker_norm, lookup, threshold))
                      ELSE NoneCands)
    ELSE <<no_match, NoneCands>>

\* Level 2 of match_speaker_atomic (lines 184-216).
fuzzy_level(speaker_norm, lookup, threshold, is_single_token) ==
    fuzzy_decide(speaker_norm, lookup, threshold, is_single_token,
                 BestFrom(speaker_norm, lookup.all_members, is_single_token, 1, <<<<0, 1>>, 0>>))

\* A variant of step 1c without the test of line 178: the bucket is reported
\* ambiguous whatever its size.
last_name_always_ambiguous(candidates) ==
    <<_make_ambiguous_result(candidates, <<100, 1>>), candidates>>

\* Step 1c (lines 177-182) for the bucket of the speaker's single token.
last_name_match(candidates) ==
    IF Len(candidates) = 1
    THEN <<_make_result(candidates[1], "deterministic", <<100, 1>>), NoneCands>>
    ELSE <<_make_ambiguous_result(candidates, <<100, 1>>), candidates>>

\* Lines 160-216 for a non-empty name and its tokens.
match_tokens(speaker_norm, speaker_tokens, lookup, threshold) ==
    IF speaker_norm \in keys(lookup.full_name_index)
    THEN <<_make_result(get(lookup.full_name_index, speaker_norm), "deterministic", <<100, 1>>),
           NoneCands>>
    ELSE IF speaker_norm \in keys(lookup.other_names_index)
    THEN <<_make_result(get(lookup.other_names_index, speaker_norm), "deterministic", <<100, 1>>),
           NoneCands>>
    ELSE IF Len(speaker_tokens) = 1 /\ speaker_tokens[1] \in keys(lookup.last_name_index)
    THEN last_name_match(get(lookup.last_name_index, speaker_tokens[1]))
    ELSE fuzzy_level(speaker_norm, lookup, threshold, Len(speaker_tokens) = 1)

\* matcher.match_speaker_atomic: <<result, candidates>>
match_speaker_atomic(speaker_norm, lookup, threshold) ==
    IF speaker_norm = <<>> THEN <<no_match, NoneCands>>
    ELSE match_tokens(speaker_norm, split(speaker_norm), lookup, threshold)

(***************************************************************************)
(* legislature.py                                                          *)
(***************************************************************************)
NoneNum == -1

\* What date_to_legislature yields when date.fromisoformat raises ValueError,
\* and the date that stands for that exception.
Raised == -2

InvalidDate == <<0, 0, 0>>

DigitSeq == <<"0", "1", "2", "3", "4", "5", "6", "7", "8", "9">>

\* int() of a string of decimal digits.
RECURSIVE DecimalValue(_)
DecimalValue(s) ==
    IF s = <<>> THEN 0
    ELSE 10 * DecimalValue(SubSeq(s, 1, Len(s) - 1)) + (IndexOf(DigitSeq, s[Len(s)]) - 1)

DaysInMonth(y, m) ==
    IF m \in {4, 6, 9, 11} THEN 30
    ELSE IF m # 2 THEN 31
    ELSE IF (y % 4 = 0 /\ y % 100 # 0) \/ y % 400 = 0 THEN 29 ELSE 28

\* datetime.date.fromisoformat on a str in the form YYYY-MM-DD that
\* date_to_legislature documents: the date <<year, month, day>>, InvalidDate
\* when it raises ValueError.
date_of(y, m, d) ==
    IF y >= 1 /\ m \in 1..12 /\ d >= 1 /\ d <= DaysInMonth(y, m)
    THEN <<y, m, d>> ELSE InvalidDate

fromisoformat(s) ==
    IF /\ Len(s) = 10
       /\ s[5] = "-" /\ s[8] = "-"
       /\ \A j \in {1, 2, 3, 4, 6, 7, 9, 10} : s[j] \in Digits
    THEN date_of(DecimalValue(SubSeq(s, 1, 4)), DecimalValue(SubSeq(s, 6, 7)),
                 DecimalValue(SubSeq(s, 9, 10)))
    ELSE InvalidDate

\* a <= b for two dates
DateLeq(a, b) ==
    \/ a[1] < b[1]
    \/ a[1] = b[1] /\ a[2] < b[2]
    \/ a[1] = b[1] /\ a[2] = b[2] /\ a[3] <= b[3]

\* legislature.load_legislatures on the file of the run.
legislatures ==
    << [legislature |-> 41, start_date |-> <<2014, 5, 20>>, end_date |-> <<2018, 8, 23>>],
       [legislature |-> 42, start_date |-> <<2018, 11, 27>>, end_date |-> <<2022, 8, 28>>] >>

\* legislature.date_to_legislature for an event_date that is a str: the number
\* of the first legislature whose interval holds the date, NoneNum for none,
\* Raised when the str is no ISO date.
first_legislature(legs, hits) == IF hits = {} THEN NoneNum ELSE legs[Min(hits)].legislature

\* Lines 50-53 for a date.
legislature_of(d, legs) ==
    IF d = InvalidDate THEN Raised
    ELSE first_legislature(legs, {j \in 1..Len(legs) :
                                     DateLeq(legs[j].start_date, d) /\ DateLeq(d, legs[j].end_date)})

date_to_legislature(event_date, legs) == legislature_of(fromisoformat(event_date), legs)

(***************************************************************************)
(* The inputs of a run: the roster (members) and the transcript rows.      *)
(***************************************************************************)
PierreArcand ==
    [ full_name |-> <<"P", "i", "e", "r", "r", "e", " ", "A", "r", "c", "a", "n", "d">>,
      other_names |-> NoneTxt,
      party_id |-> "PLQ", gender |-> "m", district_id |-> "Mont-Royal", legislature_id |-> 42 ]

MathieuLevesque ==
    [ full_name |-> <<"M", "a", "t", "h", "i", "e", "u", " ", "L", "é", "v", "e", "s", "q", "u", "e">>,
      other_names |-> <<"M", "a", "t", " ", "L", "é", "v", "e", "s", "q", "u", "e", ";", " ">>,
      party_id |-> "CAQ", gender |-> "m", district_id |-> "Chapleau", legislature_id |-> 42 ]

SylvainLevesque ==
    [ full_name |-> <<"S", "y", "l", "v", "a", "i", "n", " ", "L", "é", "v", "e", "s", "q", "u", "e">>,
      other_names |-> NoneTxt,
      party_id |-> "CAQ", gender |-> "f", district_id |-> "Chauveau", legislature_id |-> 42 ]

\* The same member in the previous legislature, and one in "Lastname, Firstname" form.
SylvainLevesque41 ==
    [ full_name |-> <<"S", "y", "l", "v", "a", "i", "n", " ", "L", "é", "v", "e", "s", "q", "u", "e">>,
      other_names |-> NoneTxt,
      party_id |-> "ADQ", gender |-> "f", district_id |-> "Vanier", legislature_id |-> 41 ]

ClaudeRoy41 ==
    [ full_name |-> <<"R", "o", "y", ",", " ", "C", "l", "a", "u", "d", "e">>,
      other_names |-> NoneTxt,
      party_id |-> "PQ", gender |-> "m", district_id |-> "", legislature_id |-> 41 ]

\* The roster of the scenarios: two members named Lévesque in legislature 42,
\* of the same party and of different gender.
RosterScenario ==
    <<PierreArcand, MathieuLevesque, SylvainLevesque, SylvainLevesque41, ClaudeRoy41>>

\* The same with the party of one Lévesque missing and their gender equal.
RosterMissingField ==
    <<PierreArcand, MathieuLevesque,
      [SylvainLevesque EXCEPT !.party_id = "", !.gender = "m"],
      SylvainLevesque41, ClaudeRoy41>>

\* The same with one Lévesque listed twice in legislature 42.
RosterDuplicate ==
    <<PierreArcand, MathieuLevesque, SylvainLevesque, SylvainLevesque,
      SylvainLevesque41, ClaudeRoy41>>

\* The same with one Lévesque listed twice in legislature 42, under two parties.
RosterPartySwitch ==
    <<PierreArcand, MathieuLevesque, SylvainLevesque,
      [SylvainLevesque EXCEPT !.party_id = "IND"],
      SylvainLevesque41, ClaudeRoy41>>

Rosters == {RosterScenario, RosterMissingField, RosterDuplicate, RosterPartySwitch}

\* event_date values: two sitting days of legislature 42, one of legislature
\* 41, a day before every legislature, a missing date and a str that is no date.
Day42a == <<"2", "0", "1", "9", "-", "0", "3", "-", "1", "2">>

Day42b == <<"2", "0", "1", "9", "-", "0", "3", "-", "1", "3">>

Day41 == <<"2", "0", "1", "5", "-", "0", "2", "-", "1", "0">>

DayOutside == <<"1", "9", "9", "0", "-", "0", "1", "-", "0", "1">>

DayMissing == <<>>

DayGarbled == <<"n", "/", "a">>

Row(speaker, event_date) == [speaker |-> speaker, event_date |-> event_date]

\* Raw speaker strings.
SpLevesque == <<"M", ".", " ", "L", "é", "v", "e", "s", "q", "u", "e">>

SpSylvain == <<"M", ".", " ", "S", "y", "l", "v", "a", "i", "n", " ", "L", "é", "v", "e", "s", "q", "u", "e">>

SpMathieu == <<"M", "a", "t", "h", "i", "e", "u", " ", "L", "é", "v", "e", "s", "q", "u", "e">>

SpSylvan == <<"M", ".", " ", "S", "y", "l", "v", "a", "n", " ", "L", "é", "v", "e", "s", "q", "u", "e">>

SpLevesqueChauveau == <<"M", ".", " ", "L", "é", "v", "e", "s", "q", "u", "e", ",", " ", "C", "h", "a", "u", "v", "e", "a", "u">>

SpLevesqe == <<"L", "e", "v", "e", "s", "q", "e">>

SpArcand == <<"M", ".", " ", "A", "r", "c", "a", "n", "d">>

SpArcan == <<"M", ".", "A", "r", "c", "a", "n", " ", "(", "r", "é", "p", "l", "i", "q", "u", "e", ")">>

SpPierreArcan == <<"M", "r", " ", "P", "i", "e", "r", "r", "e", " ", "A", "r", "c", "a", "n">>

SpMat == <<"1", "5", " ", "7", "2", "5", " ", "M", ".", " ", "M", "a", "t", " ", "L", "é", "v", "e", "s", "q", "u", "e">>

SpRoy == <<"M", "m", "e", " ", "R", "o", "y">>

SpTremblay == <<"M", ".", " ", "T", "r", "e", "m", "b", "l", "a", "y">>

SpVoix == <<"D", "e", "s", " ", "v", "o", "i", "x">>

SpPresidente == <<"1", "5", " ", "7", "2", "5", " ", "L", "a", " ", "P", "r", "é", "s", "i", "d", "e", "n", "t", "e">>

SpEmpty == <<>>

\* The rows of the runs of several rows.
CorpusRows ==
    { Row(SpLevesque, Day42a), Row(SpMathieu, Day42a), Row(SpSylvan, Day42a),
      Row(SpSylvain, Day42b), Row(SpVoix, Day42a), Row(SpEmpty, Day42a),
      Row(SpArcand, DayOutside), Row(SpVoix, DayMissing) }

\* The rows of the runs of one row.
Speakers ==
    { SpLevesque, SpSylvain, SpMathieu, SpSylvan, SpLevesqueChauveau, SpLevesqe, SpArcand, SpArcan,
      SpPierreArcan, SpMat, SpRoy, SpTremblay, SpVoix, SpPresidente, SpEmpty }

Days == {Day42a, Day42b, Day41, DayOutside, DayMissing, DayGarbled}

SingleRows == {Row(sp, d) : sp \in Speakers, d \in Days}

\* The longest corpus of the runs of several rows.
MaxRows == 3

\* match_corpus's default fuzzy_threshold.
fuzzy_threshold == 85

(***************************************************************************)
(* matcher.match_corpus as a state machine.                                *)
(***************************************************************************)
VARIABLES
    corpus_rows,           \* the rows given to match_corpus
    members,               \* the roster given to match_corpus
    pc,                    \* "phase1", "group", "item", "done", "raised"
    i,                     \* rows handled by phase 1
    lookup_cache,          \* legislature -> session index
    grouped_results,       \* the date groups in insertion order: [date_str, items]
    final_results_sorted,  \* the list match_corpus returns
    g,                     \* phase 2: position of the date group at hand
    k,                     \* phase 2: position of the item at hand in its group
    daily_roster,          \* phase 2: the confirmed roster of the group at hand
    phase1                 \* history: each row's item as phase 1 left it

vars == <<corpus_rows, members, pc, i, lookup_cache, grouped_results,
          final_results_sorted, g, k, daily_roster, phase1>>

\* None in final_results_sorted.
NoneResult == [none |-> TRUE]

\* "unknown", the date_str of a row without event_date
UNKNOWN == <<"u", "n", "k", "n", "o", "w", "n">>

\* The result dict of a row before matching: the row's own fields, the three
\* fields of normalization and the default match fields.
default_result(row, category, speaker_norm, leg) ==
    [ speaker            |-> row.speaker,
      event_date         |-> row.event_date,
      speaker_category   |-> category,
      speaker_normalized |-> speaker_norm,
      legislature        |-> leg,
      matched_name       |-> NoneTxt,
      party_id           |-> NoneStr,
      gender             |-> NoneStr,
      district_id        |-> NoneStr,
      match_level        |-> "unmatched",
      match_score        |-> NoneScore ]

\* result.update(match_res)
update(result, match_res) ==
    [result EXCEPT !.matched_name = match_res.matched_name,
                   !.party_id = match_res.party_id,
                   !.gender = match_res.gender,
                   !.district_id = match_res.district_id,
                   !.match_level = match_res.match_level,
                   !.match_score = match_res.match_score]

\* grouped_results[date_str].append(item), the group made first when new.
append_item(groups, date_str, item) ==
    IF \E n \in 1..Len(groups) : groups[n].date_str = date_str
    THEN [n \in 1..Len(groups) |->
             IF groups[n].date_str = date_str
             THEN [groups[n] EXCEPT !.items = Append(@, item)]
             ELSE groups[n]]
    ELSE Append(groups, [date_str |-> date_str, items |-> <<item>>])

\* The session index of leg after line 269-270: built on the first row of leg.
cache_with(cache, roster, leg) ==
    IF leg \in keys(cache) THEN cache ELSE Put(cache, leg, _build_lookup(roster, leg))

\* The item of a row that is matched (lines 275-276 and 283-287), m being what
\* match_speaker_atomic returned.
matched_item(index, result, m) ==
    [index |-> index, result |-> update(result, m[1]), candidates |-> m[2]]

\* The item of a row that bypasses the cascade (line 279).
bypass_item(index, result, category) ==
    [index |-> index,
     result |-> [result EXCEPT !.match_level =
                     IF category # "person" THEN category ELSE "unmatched"],
     candidates |-> NoneCands]

\* Lines 253-287 for row number index (from 0), its legislature, what
\* normalize_speaker returned for it and the cache as line 270 leaves it.
\* normalize_speaker returns three values and line 251 binds two names: as
\* written the line raises ValueError (too many values to unpack) on every row.
\* The model follows the rest of match_corpus under the reading that the two
\* names take the category and the normalized name; the district hint has no
\* use in matcher.py.
phase1_item(row, index, leg, norm, cache) ==
    IF norm[1] = "person" /\ leg # NoneNum
    THEN matched_item(index, default_result(row, norm[1], norm[2], leg),
                      match_speaker_atomic(norm[2], get(cache, leg), fuzzy_threshold))
    ELSE bypass_item(index, default_result(row, norm[1], norm[2], leg), norm[1])

\* A variant of lines 268-270 without the test of line 268: the index is built
\* for the row of any category.
cache_always(cache, roster, leg, category) == cache_with(cache, roster, leg)

\* Lines 268-270: the cache after a row of this category and legislature.
cache_after(cache, roster, leg, category) ==
    IF category = "person" /\ leg # NoneNum THEN cache_with(cache, roster, leg) ELSE cache

\* Line 248: the key of the row's group.
date_str_of(row) == IF row.event_date # <<>> THEN row.event_date ELSE UNKNOWN

\* One iteration of the loop of phase 1 (lines 243-287): date_to_legislature
\* raises, or the row's item joins its group.
Phase1Step ==
    /\ pc = "phase1"
    /\ i < Len(corpus_rows)
    /\ \E leg \in {date_to_legislature(corpus_rows[i + 1].event_date, legislatures)} :
          IF leg = Raised
          THEN /\ pc' = "raised"
               /\ UNCHANGED <<i, lookup_cache, grouped_results, phase1>>
          ELSE \E norm \in {normalize_speaker(corpus_rows[i + 1].speaker)} :
               \E cache \in {cache_after(lookup_cache, members, leg, norm[1])} :
               \E item \in {phase1_item(corpus_rows[i + 1], i, leg, norm, cache)} :
                   /\ lookup_cache' = cache
                   /\ grouped_results' =
                          append_item(grouped_results, date_str_of(corpus_rows[i + 1]), item)
                   /\ phase1' = Append(phase1, item)
                   /\ i' = i + 1
                   /\ pc' = pc
    /\ UNCHANGED <<corpus_rows, members, final_results_sorted, g, k, daily_roster>>

\* Line 290, after the last row: final_results_sorted = [None] * n.
Phase2Begin ==
    /\ pc = "phase1"
    /\ i = Len(corpus_rows)
    /\ final_results_sorted' = [n \in 1..Len(corpus_rows) |-> NoneResult]
    /\ g' = 1
    /\ pc' = "group"
    /\ UNCHANGED <<corpus_rows, members, i, lookup_cache, grouped_results, k, daily_roster, phase1>>

\* A variant of step 2a that gathers the confirmed names of every date.
roster_of_every_date(items) ==
    UNION { { grouped_results[n].items[h].result.matched_name :
                h \in { h \in 1..Len(grouped_results[n].items) :
                          grouped_results[n].items[h].result.match_level
                              \in {"deterministic", "fuzzy"} } } :
            n \in 1..Len(grouped_results) }

\* Step 2a (lines 298-304): the daily roster of a list of items.
build_daily_roster(items) ==
    { items[n].result.matched_name :
        n \in { h \in 1..Len(items) :
                  /\ items[h].result.match_level \in {"deterministic", "fuzzy"}
                  /\ items[h].result.matched_name \notin {NoneTxt, <<>>} } }

BuildDailyRoster ==
    /\ pc = "group"
    /\ g <= Len(grouped_results)
    /\ daily_roster' = build_daily_roster(grouped_results[g].items)
    /\ k' = 1
    /\ pc' = "item"
    /\ UNCHANGED <<corpus_rows, members, i, lookup_cache, grouped_results,
                   final_results_sorted, g, phase1>>

\* [c for c in candidates if c["full_name"] in daily_roster]
matches_in_roster(candidates, roster) ==
    SelectSeq(candidates, LAMBDA c : c.full_name \in roster)

\* A variant of lines 319-326 that gives the rewritten row the score of a
\* direct match.
contextual_full_score(res, best) ==
    [res EXCEPT !.matched_name = best.full_name,
                !.party_id = best.party_id,
                !.gender = best.gender,
                !.district_id = best.district_id,
                !.match_level = "contextual",
                !.match_score = <<100, 1>>]

\* Step 2b for one item (lines 308-326): its result after the step.
\* res.update({...}) of lines 319-326
contextual(res, best) ==
    [res EXCEPT !.matched_name = best.full_name,
                !.party_id = best.party_id,
                !.gender = best.gender,
                !.district_id = best.district_id,
                !.match_level = "contextual",
                !.match_score = <<99, 1>>]

\* A variant of step 2b with len(matches_in_roster) >= 1 for the test of line
\* 316: the first candidate of the roster is taken.
resolve_any(item, roster) ==
    IF /\ item.result.match_level = "ambiguous"
       /\ item.candidates \notin {NoneCands, <<>>}
       /\ Len(matches_in_roster(item.candidates, roster)) >= 1
    THEN contextual(item.result, matches_in_roster(item.candidates, roster)[1])
    ELSE item.result

resolve(item, roster) ==
    IF /\ item.result.match_level = "ambiguous"
       /\ item.candidates \notin {NoneCands, <<>>}
       /\ Len(matches_in_roster(item.candidates, roster)) = 1
    THEN contextual(item.result, matches_in_roster(item.candidates, roster)[1])
    ELSE item.result

\* A variant of the loop of step 2b in which the rows of one speaker and one
\* legislature hold the same result dict (as results kept per speaker would):
\* the update in place of line 319 shows in each of them.
shared_update(groups, old, res) ==
    [n \in 1..Len(groups) |->
        [groups[n] EXCEPT !.items =
            [h \in 1..Len(groups[n].items) |->
                IF groups[n].items[h].result = old
                THEN [groups[n].items[h] EXCEPT !.result = res]
                ELSE groups[n].items[h]]]]

ResolveItemShared ==
    /\ pc = "item"
    /\ \E item \in {grouped_results[g].items[k]} :
       \E res \in {resolve(item, daily_roster)} :
           /\ grouped_results' = shared_update(grouped_results, item.result, res)
           /\ final_results_sorted' = [final_results_sorted EXCEPT ![item.index + 1] = res]
    /\ IF k < Len(grouped_results[g].items)
       THEN /\ k' = k + 1
            /\ UNCHANGED <<g, pc>>
       ELSE /\ g' = g + 1
            /\ pc' = "group"
            /\ k' = k
    /\ UNCHANGED <<corpus_rows, members, i, lookup_cache, daily_roster, phase1>>

\* One iteration of the loop of step 2b (lines 307-332), and the step to the
\* next item or the next date: the item's result is updated in place and
\* placed in the final list.
ResolveItem ==
    /\ pc = "item"
    /\ \E item \in {grouped_results[g].items[k]} :
       \E res \in {resolve(item, daily_roster)} :
           /\ grouped_results' = [grouped_results EXCEPT ![g].items[k].result = res]
           /\ final_results_sorted' = [final_results_sorted EXCEPT ![item.index + 1] = res]
    /\ IF k < Len(grouped_results[g].items)
       THEN /\ k' = k + 1
            /\ UNCHANGED <<g, pc>>
       ELSE /\ g' = g + 1
            /\ pc' = "group"
            /\ k' = k
    /\ UNCHANGED <<corpus_rows, members, i, lookup_cache, daily_roster, phase1>>

\* Line 341: return final_results_sorted.
Return ==
    /\ pc = "group"
    /\ g > Len(grouped_results)
    /\ pc' = "done"
    /\ UNCHANGED <<corpus_rows, members, i, lookup_cache, grouped_results,
                   final_results_sorted, g, k, daily_roster, phase1>>

\* The state at the call of match_corpus (lines 231-238).
Start ==
    /\ pc = "phase1"
    /\ i = 0
    /\ lookup_cache = <<>>
    /\ grouped_results = <<>>
    /\ final_results_sorted = <<>>
    /\ g = 0
    /\ k = 0
    /\ daily_roster = {}
    /\ phase1 = <<>>

\* Runs over every corpus of at most MaxRows rows, with the roster of the scenarios.
Init ==
    /\ members = RosterScenario
    /\ corpus_rows \in UNION {[1..n -> CorpusRows] : n \in 0..MaxRows}
    /\ Start

Next == Phase1Step \/ Phase2Begin \/ BuildDailyRoster \/ ResolveItem \/ Return

Spec == Init /\ [][Next]_vars

\* Runs over one row, with every roster.
InitSingle ==
    /\ members \in Rosters
    /\ corpus_rows \in {<<r>> : r \in SingleRows}
    /\ Start

SpecSingle == InitSingle /\ [][Next]_vars

(***************************************************************************)
(* Properties of match_corpus.  phase1[n] is the item of row n as phase 1  *)
(* left it, final_results_sorted[n] its outcome once phase 2 has placed it.*)
(***************************************************************************)
\* The rows whose outcome is in the final list.
Placed == {n \in 1..Len(final_results_sorted) : final_results_sorted[n] # NoneResult}

\* The rows of the date group of row n.
same_date(n) ==
    {h \in 1..Len(phase1) : date_str_of(corpus_rows[h]) = date_str_of(corpus_rows[n])}

\* The display names that phase 1 matched at the deterministic or the fuzzy
\* level among a set of rows.
confirmed_names(rows) ==
    {phase1[h].result.matched_name :
        h \in {h \in rows : phase1[h].result.match_level \in {"deterministic", "fuzzy"}}}

\* The candidates of row n, by position, whose display name is confirmed on
\* the row's date.
candidates_in_roster(n) ==
    IF phase1[n].candidates = NoneCands THEN {}
    ELSE {j \in 1..Len(phase1[n].candidates) :
             phase1[n].candidates[j].full_name \in confirmed_names(same_date(n))}

\* The outcome of a row rewritten from the candidate at position j.
rewritten_from(n, j) ==
    [phase1[n].result EXCEPT
        !.matched_name = phase1[n].candidates[j].full_name,
        !.party_id = phase1[n].candidates[j].party_id,
        !.gender = phase1[n].candidates[j].gender,
        !.district_id = phase1[n].candidates[j].district_id,
        !.match_level = "contextual",
        !.match_score = <<99, 1>>]

one_in_roster(n) ==
    /\ phase1[n].result.match_level = "ambiguous"
    /\ Cardinality(candidates_in_roster(n)) = 1

rows_of_group(n) ==
    {h \in 1..Len(phase1) : date_str_of(corpus_rows[h]) = grouped_results[n].date_str}

index_of(n) == get(lookup_cache, phase1[n].result.legislature)

\* Row n went through the cascade with a name of one token that is no key of
\* the full-name index and of the alternate-name index, and is a last name.
last_name_only(n) ==
    /\ phase1[n].result.speaker_category = "person"
    /\ phase1[n].result.legislature # NoneNum
    /\ Len(split(phase1[n].result.speaker_normalized)) = 1
    /\ phase1[n].result.speaker_normalized \notin keys(index_of(n).full_name_index)
    /\ phase1[n].result.speaker_normalized \notin keys(index_of(n).other_names_index)
    /\ phase1[n].result.speaker_normalized \in keys(index_of(n).last_name_index)

bucket(n) == get(index_of(n).last_name_index, phase1[n].result.speaker_normalized)

display_names(candidates) == [j \in 1..Len(candidates) |-> candidates[j].full_name]

deduplicated(names) ==
    [n \in 1..Cardinality(Range(names)) |->
        names[SelectSeq([j \in 1..Len(names) |-> j],
                        LAMBDA j : \A h \in 1..(j - 1) : names[h] # names[j])[n]]]

\* C3: a one-token name that is no full-name or alternate-name key and whose
\* last-name bucket holds two members or more is reported ambiguous with
\* score 100, the whole bucket is its candidate set, and matched_name is the
\* candidates' display names deduplicated, sorted and joined with "; ".
C3_SharedLastNameIsAmbiguous ==
    \A n \in 1..Len(phase1) :
        (last_name_only(n) /\ Len(bucket(n)) >= 2) =>
            /\ phase1[n].result.match_level = "ambiguous"
            /\ phase1[n].result.match_score = <<100, 1>>
            /\ phase1[n].candidates = bucket(n)
            /\ phase1[n].result.matched_name =
                   join(<<";", " ">>, sorted(deduplicated(display_names(bucket(n)))))

\* The members of the roster, by position, that sit in the legislature of row
\* n under the last name that is the row's normalized name.
members_named(n) ==
    {j \in 1..Len(members) :
        /\ members[j].legislature_id = phase1[n].result.legislature
        /\ extract_last_name(normalize_member_name(members[j].full_name))
               = phase1[n].result.speaker_normalized}

the_member(n) == members[CHOOSE j \in members_named(n) : TRUE]

\* C4: a one-token name that is no full-name or alternate-name key and is the
\* last name of exactly one member of the row's legislature is matched to that
\* member at the deterministic level with score 100, with the member's display
\* name, party, gender and district, and without candidate set.
C4_UniqueLastNameIsDeterministic ==
    \A n \in 1..Len(phase1) :
        (last_name_only(n) /\ Cardinality(members_named(n)) = 1) =>
            /\ phase1[n].result.match_level = "deterministic"
            /\ phase1[n].result.match_score = <<100, 1>>
            /\ phase1[n].result.matched_name = the_member(n).full_name
            /\ phase1[n].result.party_id = the_member(n).party_id
            /\ phase1[n].result.gender = the_member(n).gender
            /\ phase1[n].result.district_id = the_member(n).district_id
            /\ phase1[n].candidates = NoneCands

\* A returned row matched by the last name of its one member.
C4_Witness ==
    /\ pc = "done"
    /\ \E n \in 1..Len(phase1) :
          /\ last_name_only(n)
          /\ Cardinality(members_named(n)) = 1
          /\ final_results_sorted[n].match_level = "deterministic"
          /\ final_results_sorted[n].matched_name = the_member(n).full_name

\* C5: match_corpus returns, for every corpus, one outcome per row, at the
\* row's own place: the call does not raise, and what it returns has the
\* length of the corpus and holds at place n the fields of row n.
C5_OneOutcomePerRowInOrder ==
    /\ pc # "raised"
    /\ pc = "done" =>
          /\ Len(final_results_sorted) = Len(corpus_rows)
          /\ \A n \in 1..Len(corpus_rows) :
                /\ final_results_sorted[n] # NoneResult
                /\ final_results_sorted[n].speaker = corpus_rows[n].speaker
                /\ final_results_sorted[n].event_date = corpus_rows[n].event_date

\* Row n has a date that is missing, is no date, or lies in no legislature.
no_legislature_for(n) ==
    date_to_legislature(corpus_rows[n].event_date, legislatures) \in {NoneNum, Raised}

match_fields_absent(result) ==
    /\ result.matched_name = NoneTxt
    /\ result.party_id = NoneStr
    /\ result.gender = NoneStr
    /\ result.district_id = NoneStr
    /\ result.match_score = NoneScore

\* C6: a row whose date is missing, unparseable or outside every legislature
\* never makes match_corpus raise: its legislature is absent, and a person row
\* is routed to "unmatched" with the match fields absent.
C6_BadDateIsUnmatchedNotRaised ==
    \A n \in 1..Len(corpus_rows) :
        no_legislature_for(n) =>
            /\ pc # "raised"
            /\ n <= Len(phase1) =>
                  /\ phase1[n].result.legislature = NoneNum
                  /\ match_fields_absent(phase1[n].result)
                  /\ phase1[n].result.speaker_category = "person"
                        => phase1[n].result.match_level = "unmatched"

\* Row n bypasses the cascade: no person, or no legislature for its date.
bypasses(n) ==
    \/ phase1[n].result.speaker_category # "person"
    \/ phase1[n].result.legislature = NoneNum

outcomes ==
    {phase1[n].result : n \in 1..Len(phase1)} \cup {final_results_sorted[n] : n \in Placed}

score_in_range(result) ==
    \/ result.match_score = NoneScore
    \/ /\ result.match_score[2] > 0
       /\ result.match_score[1] >= 0
       /\ result.match_score[1] <= 100 * result.match_score[2]

scores_by_level(result) ==
    /\ score_in_range(result)
    /\ result.match_level = "deterministic" => result.match_score = <<100, 1>>
    /\ result.match_level = "contextual" => result.match_score = <<99, 1>>

district_name(district_id) ==
    CASE district_id = "Mont-Royal" -> <<"M", "o", "n", "t", "-", "R", "o", "y", "a", "l">>
      [] district_id = "Chapleau" -> <<"C", "h", "a", "p", "l", "e", "a", "u">>
      [] district_id = "Chauveau" -> <<"C", "h", "a", "u", "v", "e", "a", "u">>
      [] district_id = "Vanier" -> <<"V", "a", "n", "i", "e", "r">>
      [] OTHER -> <<>>

\* The district hint that normalize_speaker extracts from the speaker of row n.
district_hint(n) == normalize_speaker(corpus_rows[n].speaker)[3]

\* The members of the roster, by position, that a district index of the
\* legislature of row n would hold under the row's district hint.
members_of_district(n) ==
    {j \in 1..Len(members) :
        /\ members[j].legislature_id = phase1[n].result.legislature
        /\ members[j].district_id # ""
        /\ normalize_member_name(district_name(members[j].district_id)) = district_hint(n)}

\* C9: a person row with a district hint for which the legislature's district
\* index holds exactly one member is matched to that member at the
\* deterministic level with score 100, whatever the other rules would say.
C9_DistrictOverrideComesFirst ==
    \A n \in 1..Len(phase1) :
        ( /\ phase1[n].result.speaker_category = "person"
          /\ phase1[n].result.legislature # NoneNum
          /\ district_hint(n) # NoneTxt
          /\ Cardinality(members_of_district(n)) = 1 ) =>
            /\ phase1[n].result.match_level = "deterministic"
            /\ phase1[n].result.match_score = <<100, 1>>
            /\ phase1[n].result.matched_name =
                   members[CHOOSE j \in members_of_district(n) : TRUE].full_name

\* The value an ambiguous outcome holds for a field of which the candidates
\* carry these values: the value when it is the only one, else absent.
one_distinct(values) ==
    IF Cardinality(values) = 1 THEN CHOOSE v \in values : TRUE ELSE NoneStr

\* C10: in an ambiguous outcome party_id is the candidates' party when they
\* carry exactly one distinct party value and is absent otherwise (an empty
\* value counts as a value that differs), the same holds of gender, and
\* district_id is absent.
C10_ConsensusOnlyWhenOneDistinctValue ==
    \A n \in 1..Len(phase1) :
        (phase1[n].result.match_level = "ambiguous" /\ phase1[n].candidates # NoneCands) =>
            /\ phase1[n].result.party_id =
                   one_distinct({phase1[n].candidates[j].party_id :
                                    j \in 1..Len(phase1[n].candidates)})
            /\ phase1[n].result.gender =
                   one_distinct({phase1[n].candidates[j].gender :
                                    j \in 1..Len(phase1[n].candidates)})
            /\ phase1[n].result.district_id = NoneStr

\* Row n reached the fuzzy step: a person row with a legislature and a name
\* for which no exact rule fired.
fuzzy_step(n) ==
    /\ phase1[n].result.speaker_category = "person"
    /\ phase1[n].result.legislature # NoneNum
    /\ phase1[n].result.speaker_normalized # <<>>
    /\ phase1[n].result.speaker_normalized \notin keys(index_of(n).full_name_index)
    /\ phase1[n].result.speaker_normalized \notin keys(index_of(n).other_names_index)
    /\ ~last_name_only(n)

one_token(n) == Len(split(phase1[n].result.speaker_normalized)) = 1

\* The score of every member of the index of row n, in the order of the
\* roster: on the last name for a name of one token, else on the full name.
scores_of(n) ==
    [j \in 1..Len(index_of(n).all_members) |->
        IF one_token(n)
        THEN _fuzzy_score_last(phase1[n].result.speaker_normalized,
                               index_of(n).all_members[j].last_name_norm)
        ELSE _fuzzy_score_full(phase1[n].result.speaker_normalized,
                               index_of(n).all_members[j].full_name_norm)]

top_score(scores) == RMax({<<0, 1>>} \cup Range(scores))

\* The display names of the members whose last-name score reaches the threshold.
close_names(n) ==
    {index_of(n).all_members[j].full_name :
        j \in {h \in 1..Len(index_of(n).all_members) :
                  RLeq(<<fuzzy_threshold, 1>>,
                       _fuzzy_score_last(phase1[n].result.speaker_normalized,
                                         index_of(n).all_members[h].last_name_norm))}}

\* The first member of the index of row n, in the order of the roster, whose
\* score is the top score.
first_of_top(n, scores) ==
    index_of(n).all_members[Min({j \in 1..Len(scores) : scores[j] = top_score(scores)})]

\* What the fuzzy step owes row n, given the scores of the members.
fuzzy_step_outcome(n, scores) ==
    IF RLess(top_score(scores), <<fuzzy_threshold, 1>>)
    THEN /\ phase1[n].result.match_level = "unmatched"
         /\ match_fields_absent(phase1[n].result)
         /\ phase1[n].candidates = NoneCands
    ELSE IF one_token(n) /\ Cardinality(close_names(n)) > 1
    THEN /\ phase1[n].result.match_level = "ambiguous"
         /\ phase1[n].result.match_score = top_score(scores)
         /\ phase1[n].candidates # NoneCands
         /\ Range(display_names(phase1[n].candidates)) = close_names(n)
         /\ Len(phase1[n].candidates) = Cardinality(close_names(n))
    ELSE /\ phase1[n].result.match_level = "fuzzy"
         /\ phase1[n].result.match_score = top_score(scores)
         /\ phase1[n].result.matched_name = first_of_top(n, scores).full_name
         /\ phase1[n].result.party_id = first_of_top(n, scores).party_id
         /\ phase1[n].result.gender = first_of_top(n, scores).gender
         /\ phase1[n].result.district_id = first_of_top(n, scores).district_id
         /\ phase1[n].candidates = NoneCands

\* C11: at the fuzzy step a top score below fuzzy_threshold gives "unmatched"
\* without candidates; else a name of one token for which members of more
\* than one display name reach the threshold gives "ambiguous" over them, with
\* the top score, and they are the candidate set; else the outcome is "fuzzy"
\* for the first member, in the order of the roster, that attains the top
\* score.  A name of several tokens is never ambiguous.
C11_FuzzyStepOutcome ==
    \A n \in 1..Len(phase1) :
        fuzzy_step(n) =>
            /\ \E scores \in {scores_of(n)} : fuzzy_step_outcome(n, scores)
            /\ ~one_token(n) => phase1[n].result.match_level # "ambiguous"

\* A returned row matched at the fuzzy level while two members of different
\* party attain the top score: the party is that of the first of them.
C11_Witness ==
    /\ pc = "done"
    /\ \E n \in 1..Len(phase1) :
          /\ fuzzy_step(n)
          /\ final_results_sorted[n].match_level = "fuzzy"
          /\ \E scores \in {scores_of(n)} :
                \E j \in 1..Len(scores) :
                    /\ scores[j] = top_score(scores)
                    /\ index_of(n).all_members[j].party_id # first_of_top(n, scores).party_id
                    /\ final_results_sorted[n].party_id = first_of_top(n, scores).party_id

\* The fields of a row's outcome that are no match fields are the same in two
\* outcomes.
same_row_fields(a, b) ==
    /\ a.speaker = b.speaker
    /\ a.event_date = b.event_date
    /\ a.speaker_category = b.speaker_category
    /\ a.speaker_normalized = b.speaker_normalized
    /\ a.legislature = b.legislature

\* Item h of group n is the same after the step, or it is the item at hand,
\* ambiguous before and contextual after, with only match fields changed.
item_frame(n, h) ==
    /\ grouped_results'[n].items[h].index = grouped_results[n].items[h].index
    /\ grouped_results'[n].items[h].candidates = grouped_results[n].items[h].candidates
    /\ grouped_results'[n].items[h].result # grouped_results[n].items[h].result =>
          /\ pc = "item" /\ n = g /\ h = k
          /\ grouped_results[n].items[h].result.match_level = "ambiguous"
          /\ grouped_results'[n].items[h].result.match_level = "contextual"
          /\ same_row_fields(grouped_results[n].items[h].result,
                             grouped_results'[n].items[h].result)

\* A step of phase 2 leaves the session indexes, the groups, the candidate
\* lists and every outcome but the one at hand as they are, and places in the
\* final list the outcome at hand, nothing else.
phase2_frame ==
    pc \in {"group", "item"} =>
        /\ lookup_cache' = lookup_cache
        /\ Len(grouped_results') = Len(grouped_results)
        /\ \A n \in 1..Len(grouped_results) :
              /\ grouped_results'[n].date_str = grouped_results[n].date_str
              /\ Len(grouped_results'[n].items) = Len(grouped_results[n].items)
              /\ \A h \in 1..Len(grouped_results[n].items) : item_frame(n, h)
        /\ Len(final_results_sorted') = Len(final_results_sorted)
        /\ \A m \in 1..Len(final_results_sorted) :
              final_results_sorted'[m] # final_results_sorted[m] =>
                  /\ pc = "item"
                  /\ m = grouped_results[g].items[k].index + 1
                  /\ final_results_sorted'[m] = grouped_results'[g].items[k].result

====
